---- MODULE Spec2Model ----
(***************************************************************************)
(* BusTub project 1 building blocks: the LRU-K replacer                    *)
(* (src/buffer/lru_k_replacer.cpp, include/buffer/lru_k_replacer.h) and    *)
(* the extendible hash table (container/hash/extendible_hash_table.cpp).   *)
(* The two components do not call each other; SpecTracker runs the         *)
(* replacer and SpecDirectory runs the hash table.  Every public           *)
(* operation holds the component's latch for its whole body, so each       *)
(* operation is one atomic action there; SpecConcurrent runs the           *)
(* operations statement by statement on several threads.                   *)
(***************************************************************************)
EXTENDS Integers, Sequences, FiniteSets, TLC

\* ------------------------------------------------------------- bounds
\* replacer_size_ given to the constructor: frame ids 0..NumFrames are valid
NumFrames == 1
\* largest k given to the constructor
MaxK == 3
\* number of RecordAccess calls in one run
MaxTime == 4
\* keys given to the hash table are 0..MaxKey
MaxKey == 3
\* largest bucket_size given to the hash table's constructor
MaxBucketSize == 2

\* frame ids the callers pass: the valid ones and one beyond replacer_size_
FrameIds == 0 .. (NumFrames + 1)

VARIABLES
    k_,             \* LRUKReplacer::k_
    replacer_size_, \* LRUKReplacer::replacer_size_
    frame_map_,     \* LRUKReplacer::frame_map_ : frame id -> Node (count_, evictable_)
    cache_list,     \* List: the nodes between head_ and middle_, front first
    history_list,   \* List: the nodes between middle_ and tail_, front first
    size_,          \* List::size_
    now,            \* number of RecordAccess calls so far (logical time)
    accessed,       \* frame id -> times of the RecordAccess calls on its current Node
    promoted,       \* frame ids whose count_ has reached k_ at some time so far
    global_depth_,  \* ExtendibleHashTable::global_depth_
    bucket_size_,   \* ExtendibleHashTable::bucket_size_
    num_buckets_,   \* ExtendibleHashTable::num_buckets_
    dir_,           \* ExtendibleHashTable::dir_ : slot i is dir_[i + 1], a bucket instance
    buckets,        \* the Bucket instances made so far: depth_ and list_ of each
    kv,             \* key -> value of the Insert calls not undone by a Remove since
    ret,            \* what the last operation did: op, arg, status, val
    latch,          \* latch_: the thread that holds it, or Free
    pc,             \* thread -> where it is: "idle", "lock" (blocked on latch_), a statement
    cur,            \* thread -> the call it is in: op, arg, val, and its local idx
    snap,           \* the state of the object when the holder of latch_ acquired it
    calls           \* number of calls made by the threads so far

tvars == <<k_, replacer_size_, frame_map_, cache_list, history_list, size_, now, accessed,
           promoted>>
dvars == <<global_depth_, bucket_size_, num_buckets_, dir_, buckets, kv>>
cvars == <<latch, pc, cur, snap, calls>>
vars == <<tvars, dvars, ret, cvars>>

NoFrame == 0 - 1

\* the bool argument of SetEvictable as recorded in ret.val
FlagOf(b) == IF b THEN 1 ELSE 0

Ret(op, arg, status, val) == [op |-> op, arg |-> arg, status |-> status, val |-> val]

\* ------------------------------------------------------------- threads
\* the threads that call the operations of one object
Threads == {"t1", "t2"}

\* std::mutex latch_ not held
Free == "free"

\* a thread that is in no call
NoCall == [op |-> "none", arg |-> NoFrame, val |-> NoFrame, idx |-> NoFrame]

NoSnap == << >>

\* no thread has called anything: latch_ is free
ThreadsNew ==
    /\ latch = Free
    /\ pc = [t \in Threads |-> "idle"]
    /\ cur = [t \in Threads |-> NoCall]
    /\ snap = NoSnap
    /\ calls = 0

\* ------------------------------------------------------------- List
\* the sequence s without the node of frame f (unlinking a node)
Unlink(s, f) == SelectSeq(s, LAMBDA x : x # f)

\* List::Remove without the size_-- of an evictable node
ListRemoveSize_noDecrement(sz, ev) == sz

\* List::Remove: size_ after unlinking a node whose flag is ev
ListRemoveSize(sz, ev) == IF ev THEN sz - 1 ELSE sz

\* an insert that counts every node, evictable or not
ListInsertSize_always(sz, ev) == sz + 1

\* List::InsertCacheList / InsertHistoryList: size_ after linking a node whose flag is ev
ListInsertSize(sz, ev) == IF ev THEN sz + 1 ELSE sz

\* List::InsertCacheList: the node goes right before middle_, the back of the cache list
InsertCacheList(c, f) == Append(c, f)

\* List::InsertHistoryList: the node goes right before tail_, the back of the history list
InsertHistoryList(h, f) == Append(h, f)

\* List::DecrementSize
DecrementSize(sz) == IF sz > 0 THEN sz - 1 ELSE sz

\* List::IncrementSize
IncrementSize(sz) == sz + 1

\* Node(frame_id): count_ = 1, evictable_ = false
NewNode == [count_ |-> 1, evictable_ |-> FALSE]

\* the test written count_ == k_
InCacheSegment_equal(count, k) == count = k

\* the test written count_ > k_
InCacheSegment_strict(count, k) == count > k

\* the test of RecordAccess that picks the list a node is linked into
InCacheSegment(count, k) == count >= k

\* ------------------------------------------------------------- LRUKReplacer
\* LRUKReplacer(num_frames, k) and the member initialisers
TrackerNew(k) ==
    /\ k_ = k
    /\ replacer_size_ = NumFrames
    /\ frame_map_ = << >>
    /\ cache_list = << >>
    /\ history_list = << >>
    /\ size_ = 0
    /\ now = 0
    /\ accessed = << >>
    /\ promoted = {}

\* the first evictable node of a list scanned from the front, or NoFrame
RECURSIVE FirstEvictable(_)
FirstEvictable(s) ==
    IF s = << >> THEN NoFrame
    ELSE IF frame_map_[Head(s)].evictable_ THEN Head(s)
    ELSE FirstEvictable(Tail(s))

\* Evict scanning the cache list before the history list
EvictVictim_cacheFirst ==
    IF FirstEvictable(cache_list) # NoFrame
    THEN FirstEvictable(cache_list)
    ELSE FirstEvictable(history_list)

\* Evict: the history list is scanned first, then the cache list
EvictVictim ==
    IF FirstEvictable(history_list) # NoFrame
    THEN FirstEvictable(history_list)
    ELSE FirstEvictable(cache_list)

\* an erase that leaves the map as it is
Erase_keep(m, f) == m

\* the map m without key f (unordered_map::erase)
Erase(m, f) == [x \in DOMAIN m \ {f} |-> m[x]]

\* LRUKReplacer::Evict
Evict ==
    LET v == EvictVictim IN
    IF v # NoFrame
    THEN /\ history_list' = Unlink(history_list, v)
         /\ cache_list' = Unlink(cache_list, v)
         /\ size_' = ListRemoveSize(size_, frame_map_[v].evictable_)
         /\ frame_map_' = Erase(frame_map_, v)
         /\ accessed' = Erase(accessed, v)
         /\ ret' = Ret("Evict", NoFrame, "true", v)
         /\ UNCHANGED <<k_, replacer_size_, now, promoted>>
    ELSE /\ ret' = Ret("Evict", NoFrame, "false", NoFrame)
         /\ UNCHANGED tvars

\* LRUKReplacer::RecordAccess; no test of frame_id against replacer_size_ is made
RecordAccess(f) ==
    /\ now < MaxTime
    /\ now' = now + 1
    /\ IF f \in DOMAIN frame_map_
       THEN LET node == [frame_map_[f] EXCEPT !.count_ = @ + 1]
                sz == ListRemoveSize(size_, node.evictable_)
                h == Unlink(history_list, f)
                c == Unlink(cache_list, f)
            IN /\ frame_map_' = [frame_map_ EXCEPT ![f] = node]
               /\ IF InCacheSegment(node.count_, k_)
                  THEN cache_list' = InsertCacheList(c, f) /\ history_list' = h
                  ELSE history_list' = InsertHistoryList(h, f) /\ cache_list' = c
               /\ size_' = ListInsertSize(sz, node.evictable_)
               /\ accessed' = [accessed EXCEPT ![f] = Append(@, now + 1)]
               /\ promoted' = IF InCacheSegment(node.count_, k_)
                               THEN promoted \cup {f} ELSE promoted
       ELSE /\ frame_map_' = [x \in DOMAIN frame_map_ \cup {f} |->
                                 IF x = f THEN NewNode ELSE frame_map_[x]]
            /\ IF InCacheSegment(NewNode.count_, k_)
               THEN cache_list' = InsertCacheList(cache_list, f) /\ UNCHANGED history_list
               ELSE history_list' = InsertHistoryList(history_list, f) /\ UNCHANGED cache_list
            /\ size_' = ListInsertSize(size_, NewNode.evictable_)
            /\ accessed' = [x \in DOMAIN accessed \cup {f} |->
                               IF x = f THEN <<now + 1>> ELSE accessed[x]]
            /\ promoted' = IF InCacheSegment(NewNode.count_, k_)
                            THEN promoted \cup {f} ELSE promoted
    /\ ret' = Ret("RecordAccess", f, "ok", NoFrame)
    /\ UNCHANGED <<k_, replacer_size_>>

\* SetEvictable(f, true) not looking at the flag the node has
SetEvictable_noCompare(f, set_evictable) ==
    IF f \notin DOMAIN frame_map_
    THEN /\ ret' = Ret("SetEvictable", f, "FrameNotFound", FlagOf(set_evictable))
         /\ UNCHANGED tvars
    ELSE LET node == frame_map_[f]
             turnOff == node.evictable_ /\ ~set_evictable
         IN /\ frame_map_' = [frame_map_ EXCEPT ![f].evictable_ = set_evictable]
            /\ size_' = IF set_evictable THEN IncrementSize(size_)
                        ELSE IF turnOff THEN DecrementSize(size_) ELSE size_
            /\ ret' = Ret("SetEvictable", f, "ok", FlagOf(set_evictable))
            /\ UNCHANGED <<k_, replacer_size_, cache_list, history_list, now, accessed, promoted>>

\* LRUKReplacer::SetEvictable
SetEvictable(f, set_evictable) ==
    IF f \notin DOMAIN frame_map_
    THEN /\ ret' = Ret("SetEvictable", f, "FrameNotFound", NoFrame)
         /\ UNCHANGED tvars
    ELSE LET node == frame_map_[f]
             turnOn == ~node.evictable_ /\ set_evictable
             ev1 == IF turnOn THEN TRUE ELSE node.evictable_
             sz1 == IF turnOn THEN IncrementSize(size_) ELSE size_
             turnOff == ev1 /\ ~set_evictable
             ev2 == IF turnOff THEN FALSE ELSE ev1
             sz2 == IF turnOff THEN DecrementSize(sz1) ELSE sz1
         IN /\ frame_map_' = [frame_map_ EXCEPT ![f].evictable_ = ev2]
            /\ size_' = sz2
            /\ ret' = Ret("SetEvictable", f, "ok", FlagOf(set_evictable))
            /\ UNCHANGED <<k_, replacer_size_, cache_list, history_list, now, accessed, promoted>>

\* Remove without the test of the evictable_ flag
Remove_noCheck(f) ==
    IF f \notin DOMAIN frame_map_
    THEN /\ ret' = Ret("Remove", f, "ok", NoFrame)
         /\ UNCHANGED tvars
    ELSE /\ history_list' = Unlink(history_list, f)
         /\ cache_list' = Unlink(cache_list, f)
         /\ size_' = ListRemoveSize(size_, frame_map_[f].evictable_)
         /\ frame_map_' = Erase(frame_map_, f)
         /\ accessed' = Erase(accessed, f)
         /\ ret' = Ret("Remove", f, "removed", NoFrame)
         /\ UNCHANGED <<k_, replacer_size_, now, promoted>>

\* LRUKReplacer::Remove
Remove(f) ==
    IF f \notin DOMAIN frame_map_
    THEN /\ ret' = Ret("Remove", f, "ok", NoFrame)
         /\ UNCHANGED tvars
    ELSE IF ~frame_map_[f].evictable_
    THEN /\ ret' = Ret("Remove", f, "NotEvictable", NoFrame)
         /\ UNCHANGED tvars
    ELSE /\ history_list' = Unlink(history_list, f)
         /\ cache_list' = Unlink(cache_list, f)
         /\ size_' = ListRemoveSize(size_, frame_map_[f].evictable_)
         /\ frame_map_' = Erase(frame_map_, f)
         /\ accessed' = Erase(accessed, f)
         /\ ret' = Ret("Remove", f, "removed", NoFrame)
         /\ UNCHANGED <<k_, replacer_size_, now, promoted>>

\* LRUKReplacer::Size
Size == size_

\* ------------------------------------------------------------- Bucket
Keys == 0 .. MaxKey
\* the value type V is opaque to the table: two values tell an overwrite from a miss
Values == {"a", "b"}
NoValue == "none"

\* std::hash<int>: the key itself
Hash(key) == key

RECURSIVE Pow2(_)
Pow2(n) == IF n = 0 THEN 1 ELSE 2 * Pow2(n - 1)

\* bit number n of x: (x >> n) & 1
Bit(x, n) == (x \div Pow2(n)) % 2

\* the position of key in a bucket's list_, or 0 (std::find_if)
RECURSIVE PosFrom(_, _, _)
PosFrom(list, key, i) ==
    IF i > Len(list) THEN 0
    ELSE IF list[i][1] = key THEN i
    ELSE PosFrom(list, key, i + 1)

PosOf(list, key) == PosFrom(list, key, 1)

\* Bucket::IsFull
IsFull(b, size) == Len(b.list_) = size

\* Bucket::Find: found, and the value when found
Bucket_Find(b, key) ==
    LET i == PosOf(b.list_, key) IN
    IF i # 0 THEN [found |-> TRUE, value |-> b.list_[i][2]]
    ELSE [found |-> FALSE, value |-> NoValue]

\* Bucket::Remove erasing without the test it != list_.end(): the last entry goes
\* when the key is not there
Bucket_Remove_noEndTest(b, key) ==
    LET i == PosOf(b.list_, key) IN
    IF i # 0
    THEN [ok |-> TRUE,
          bucket |-> [b EXCEPT !.list_ = SubSeq(@, 1, i - 1) \o SubSeq(@, i + 1, Len(@))]]
    ELSE [ok |-> FALSE, bucket |-> [b EXCEPT !.list_ = SubSeq(@, 1, Len(@) - 1)]]

\* Bucket::Remove: whether an entry was erased, and the bucket afterwards
Bucket_Remove(b, key) ==
    LET i == PosOf(b.list_, key) IN
    IF i # 0
    THEN [ok |-> TRUE,
          bucket |-> [b EXCEPT !.list_ = SubSeq(@, 1, i - 1) \o SubSeq(@, i + 1, Len(@))]]
    ELSE [ok |-> FALSE, bucket |-> b]

\* Bucket::Insert without it->second = value for a key that is there
Bucket_Insert_keepOld(b, size, key, value) ==
    LET i == PosOf(b.list_, key) IN
    IF i # 0 THEN [ok |-> TRUE, bucket |-> b]
    ELSE IF IsFull(b, size) THEN [ok |-> FALSE, bucket |-> b]
    ELSE [ok |-> TRUE, bucket |-> [b EXCEPT !.list_ = Append(@, <<key, value>>)]]

\* Bucket::Insert without the IsFull() test
Bucket_Insert_noFullTest(b, size, key, value) ==
    LET i == PosOf(b.list_, key) IN
    IF i # 0 THEN [ok |-> TRUE, bucket |-> [b EXCEPT !.list_[i] = <<key, value>>]]
    ELSE [ok |-> TRUE, bucket |-> [b EXCEPT !.list_ = Append(@, <<key, value>>)]]

\* Bucket::Insert: whether the entry is stored, and the bucket afterwards
Bucket_Insert(b, size, key, value) ==
    LET i == PosOf(b.list_, key) IN
    IF i # 0 THEN [ok |-> TRUE, bucket |-> [b EXCEPT !.list_[i] = <<key, value>>]]
    ELSE IF IsFull(b, size) THEN [ok |-> FALSE, bucket |-> b]
    ELSE [ok |-> TRUE, bucket |-> [b EXCEPT !.list_ = Append(@, <<key, value>>)]]

\* ------------------------------------------------------------- ExtendibleHashTable
\* the table as one value: t.gd, t.nb, t.dir, t.bk
Table == [gd |-> global_depth_, nb |-> num_buckets_, dir |-> dir_, bk |-> buckets]

\* ExtendibleHashTable(bucket_size)
TableNew(n) ==
    /\ global_depth_ = 0
    /\ bucket_size_ = n
    /\ num_buckets_ = 1
    /\ dir_ = <<1>>
    /\ buckets = <<[depth_ |-> 0, list_ |-> << >>]>>
    /\ kv = << >>

\* IndexOf: the hash masked by (1 << global_depth_) - 1
IndexOf(gd, key) == Hash(key) % Pow2(gd)

\* ExpandTable pointing every new slot at the bucket of slot 0
ExpandTable_slotZero(t) ==
    [t EXCEPT !.gd = @ + 1, !.dir = @ \o [i \in 1 .. Len(@) |-> @[1]]]

\* ExpandTable
ExpandTable(t) == [t EXCEPT !.gd = @ + 1, !.dir = @ \o @]

\* the loop of SplitBucket erasing the entries whose new bit is set without
\* inserting them into the new bucket
RECURSIVE SplitItems_dropMoved(_, _, _, _, _, _)
SplitItems_dropMoved(items, gd, depth, size, old, new) ==
    IF items = << >> THEN [old |-> old, new |-> new]
    ELSE LET it == Head(items) IN
         IF Bit(IndexOf(gd, it[1]), depth - 1) = 1
         THEN SplitItems_dropMoved(Tail(items), gd, depth, size, old, new)
         ELSE SplitItems_dropMoved(Tail(items), gd, depth, size,
                                   [old EXCEPT !.list_ = Append(@, it)], new)

\* the loop of SplitBucket over the items of the bucket: old keeps the entries whose
\* new bit is clear, new gets the others through Bucket::Insert
RECURSIVE SplitItems(_, _, _, _, _, _)
SplitItems(items, gd, depth, size, old, new) ==
    IF items = << >> THEN [old |-> old, new |-> new]
    ELSE LET it == Head(items) IN
         IF Bit(IndexOf(gd, it[1]), depth - 1) = 1
         THEN SplitItems(Tail(items), gd, depth, size, old,
                         Bucket_Insert(new, size, it[1], it[2]).bucket)
         ELSE SplitItems(Tail(items), gd, depth, size,
                         [old EXCEPT !.list_ = Append(@, it)], new)

\* the last loop of SplitBucket: slot i of the split bucket b goes to the new bucket nb
\* when bit depth - 1 of i is set
Repoint(dir, b, nb, depth) ==
    [j \in 1 .. Len(dir) |->
        IF dir[j] = b /\ Bit(j - 1, depth - 1) = 1 THEN nb ELSE dir[j]]

\* SplitBucket without num_buckets_++
SplitBucket_noCount(t, size, b) ==
    LET depth == t.bk[b].depth_ + 1
        nb == Len(t.bk) + 1
        parts == SplitItems(t.bk[b].list_, t.gd, depth, size,
                            [depth_ |-> depth, list_ |-> << >>],
                            [depth_ |-> depth, list_ |-> << >>])
    IN [t EXCEPT !.bk = Append([@ EXCEPT ![b] = parts.old], parts.new),
                 !.dir = Repoint(@, b, nb, depth)]

\* SplitBucket(bucket), bucket being instance b
SplitBucket(t, size, b) ==
    LET depth == t.bk[b].depth_ + 1
        nb == Len(t.bk) + 1
        parts == SplitItems(t.bk[b].list_, t.gd, depth, size,
                            [depth_ |-> depth, list_ |-> << >>],
                            [depth_ |-> depth, list_ |-> << >>])
    IN [t EXCEPT !.bk = Append([@ EXCEPT ![b] = parts.old], parts.new),
                 !.nb = @ + 1,
                 !.dir = Repoint(@, b, nb, depth)]

\* the while loop of Insert doubling the directory before every split
RECURSIVE InsertLoop_alwaysExpand(_, _, _, _, _)
InsertLoop_alwaysExpand(t, size, key, value, index) ==
    LET b == t.dir[index + 1]
        r == Bucket_Insert(t.bk[b], size, key, value)
    IN IF r.ok THEN [t EXCEPT !.bk[b] = r.bucket]
       ELSE LET t1 == ExpandTable(t)
                index1 == IndexOf(t1.gd, key)
            IN InsertLoop_alwaysExpand(SplitBucket(t1, size, t1.dir[index1 + 1]),
                                       size, key, value, index1)

\* the while loop of Insert, index being the slot computed before the test
RECURSIVE InsertLoop(_, _, _, _, _)
InsertLoop(t, size, key, value, index) ==
    LET b == t.dir[index + 1]
        r == Bucket_Insert(t.bk[b], size, key, value)
    IN IF r.ok THEN [t EXCEPT !.bk[b] = r.bucket]
       ELSE LET grow == t.bk[b].depth_ = t.gd
                t1 == IF grow THEN ExpandTable(t) ELSE t
                index1 == IF grow THEN IndexOf(t1.gd, key) ELSE index
            IN InsertLoop(SplitBucket(t1, size, t1.dir[index1 + 1]), size, key, value, index1)

\* the map m with key mapped to value
Put(m, key, value) == [x \in DOMAIN m \cup {key} |-> IF x = key THEN value ELSE m[x]]

\* the result of ExtendibleHashTable::Find in the current state
FindResult(key) == Bucket_Find(buckets[dir_[IndexOf(global_depth_, key) + 1]], key)

\* ExtendibleHashTable::Find as an operation: ret holds what it returns
Find(key) ==
    /\ ret' = Ret("Find", key, IF FindResult(key).found THEN "true" ELSE "false",
                  FindResult(key).value)
    /\ UNCHANGED dvars

\* ExtendibleHashTable::Insert
Insert(key, value) ==
    LET t == InsertLoop(Table, bucket_size_, key, value, IndexOf(global_depth_, key)) IN
    /\ global_depth_' = t.gd
    /\ num_buckets_' = t.nb
    /\ dir_' = t.dir
    /\ buckets' = t.bk
    /\ kv' = Put(kv, key, value)
    /\ ret' = Ret("Insert", key, "void", value)
    /\ UNCHANGED bucket_size_

\* ExtendibleHashTable::Remove giving up a bucket it has emptied
TableRemove_merge(key) ==
    LET b == dir_[IndexOf(global_depth_, key) + 1]
        r == Bucket_Remove(buckets[b], key)
    IN /\ buckets' = [buckets EXCEPT ![b] = r.bucket]
       /\ kv' = Erase(kv, key)
       /\ ret' = Ret("Table.Remove", key, IF r.ok THEN "true" ELSE "false", NoValue)
       /\ num_buckets_' = IF r.ok /\ r.bucket.list_ = << >> /\ num_buckets_ > 1
                          THEN num_buckets_ - 1 ELSE num_buckets_
       /\ UNCHANGED <<global_depth_, bucket_size_, dir_>>

\* ExtendibleHashTable::Remove
TableRemove(key) ==
    LET b == dir_[IndexOf(global_depth_, key) + 1]
        r == Bucket_Remove(buckets[b], key)
    IN /\ buckets' = [buckets EXCEPT ![b] = r.bucket]
       /\ kv' = Erase(kv, key)
       /\ ret' = Ret("Table.Remove", key, IF r.ok THEN "true" ELSE "false", NoValue)
       /\ UNCHANGED <<global_depth_, bucket_size_, num_buckets_, dir_>>

\* GetGlobalDepth, GetLocalDepth(dir_index), GetNumBuckets
GetGlobalDepth == global_depth_

GetLocalDepth(dir_index) == buckets[dir_[dir_index + 1]].depth_

GetNumBuckets == num_buckets_

\* ------------------------------------------------------------- specifications
TrackerInit ==
    /\ \E k \in 1 .. MaxK : TrackerNew(k)
    /\ TableNew(1)
    /\ ret = Ret("init", NoFrame, "ok", NoFrame)
    /\ ThreadsNew

TrackerNext ==
    \/ Evict /\ UNCHANGED <<dvars, cvars>>
    \/ \E f \in FrameIds : RecordAccess(f) /\ UNCHANGED <<dvars, cvars>>
    \/ \E f \in FrameIds : \E b \in BOOLEAN : SetEvictable(f, b) /\ UNCHANGED <<dvars, cvars>>
    \/ \E f \in FrameIds : Remove(f) /\ UNCHANGED <<dvars, cvars>>

SpecTracker == TrackerInit /\ [][TrackerNext]_vars

DirectoryInit ==
    /\ TrackerNew(1)
    /\ \E n \in 1 .. MaxBucketSize : TableNew(n)
    /\ ret = Ret("init", 0, "ok", NoValue)
    /\ ThreadsNew

DirectoryNext ==
    \/ \E key \in Keys : Find(key) /\ UNCHANGED <<tvars, cvars>>
    \/ \E key \in Keys : \E value \in Values : Insert(key, value) /\ UNCHANGED <<tvars, cvars>>
    \/ \E key \in Keys : TableRemove(key) /\ UNCHANGED <<tvars, cvars>>

SpecDirectory == DirectoryInit /\ [][DirectoryNext]_vars

\* A run on one of the two objects: the other one is not constructed, which
\* k_ = 0 or bucket_size_ = 0 stands for, and none of its operations is called.
Init ==
    \/ /\ \E k \in 1 .. MaxK : TrackerNew(k)
       /\ TableNew(0)
       /\ ret = Ret("init", NoFrame, "ok", NoFrame)
       /\ ThreadsNew
    \/ /\ TrackerNew(0)
       /\ \E n \in 1 .. MaxBucketSize : TableNew(n)
       /\ ret = Ret("init", 0, "ok", NoValue)
       /\ ThreadsNew

Next ==
    \/ k_ > 0 /\ TrackerNext
    \/ bucket_size_ > 0 /\ DirectoryNext

Spec == Init /\ [][Next]_vars

\* ------------------------------------------------------------- threads at work
\* bound on the calls the threads make in one run
MaxCalls == 3

\* a thread between the acquisition of latch_ and its release
InBody(t) == pc[t] \notin {"idle", "lock"}

\* the replacer's lists, map and size_ as one value
TState == [fm |-> frame_map_, cl |-> cache_list, hl |-> history_list, sz |-> size_]

\* a thread calls an operation: it is about to construct the lock guard
Call(t, op, arg, val) ==
    /\ pc[t] = "idle"
    /\ calls < MaxCalls
    /\ calls' = calls + 1
    /\ pc' = [pc EXCEPT ![t] = "lock"]
    /\ cur' = [cur EXCEPT ![t] = [op |-> op, arg |-> arg, val |-> val, idx |-> NoFrame]]
    /\ UNCHANGED <<tvars, dvars, ret, latch, snap>>

\* the public operations of LRUKReplacer as calls
TrackerCall(t) ==
    \/ Call(t, "Evict", NoFrame, NoFrame)
    \/ \E f \in FrameIds : Call(t, "RecordAccess", f, NoFrame)
    \/ \E f \in FrameIds : \E b \in BOOLEAN : Call(t, "SetEvictable", f, FlagOf(b))
    \/ \E f \in FrameIds : Call(t, "Remove", f, NoFrame)
    \/ Call(t, "Size", NoFrame, NoFrame)

\* the value a thread inserts: each thread writes its own, so that a stored value
\* tells which thread's Insert came last
ValueOf(t) == IF t = "t1" THEN "a" ELSE "b"

\* the public operations of ExtendibleHashTable as calls
DirectoryCall(t) ==
    \/ \E key \in Keys : Call(t, "Find", key, NoValue)
    \/ \E key \in Keys : Call(t, "Insert", key, ValueOf(t))
    \/ \E key \in Keys : Call(t, "Table.Remove", key, NoValue)
    \/ Call(t, "GetGlobalDepth", 0, NoValue)
    \/ Call(t, "GetNumBuckets", 0, NoValue)

\* a lock guard that does not wait for latch_
Acquire_noWait(t) ==
    /\ pc[t] = "lock"
    /\ latch' = t
    /\ pc' = [pc EXCEPT ![t] = cur[t].op]
    /\ snap' = IF k_ > 0 THEN TState ELSE Table
    /\ UNCHANGED <<tvars, dvars, ret, cur, calls>>

\* std::lock_guard<std::mutex> lock(latch_), the first statement of every operation:
\* the thread goes on when latch_ is free
Acquire(t) ==
    /\ pc[t] = "lock"
    /\ latch = Free
    /\ latch' = t
    /\ pc' = [pc EXCEPT ![t] = cur[t].op]
    /\ snap' = IF k_ > 0 THEN TState ELSE Table
    /\ UNCHANGED <<tvars, dvars, ret, cur, calls>>

\* the thread goes to statement p with idx in its local variable
Goto(t, p, idx) ==
    /\ pc' = [pc EXCEPT ![t] = p]
    /\ cur' = [cur EXCEPT ![t].idx = idx]
    /\ UNCHANGED <<latch, snap, calls, ret>>

\* return: the lock guard goes out of scope and releases latch_
Return(t, status, val) ==
    /\ latch' = Free
    /\ pc' = [pc EXCEPT ![t] = "idle"]
    /\ ret' = Ret(cur[t].op, cur[t].arg, status, val)
    /\ cur' = [cur EXCEPT ![t] = NoCall]
    /\ snap' = NoSnap
    /\ UNCHANGED calls

\* a throw that leaves latch_ held
Throw_keepLatch(t, status) ==
    /\ pc' = [pc EXCEPT ![t] = "idle"]
    /\ ret' = Ret(cur[t].op, cur[t].arg, status, NoFrame)
    /\ cur' = [cur EXCEPT ![t] = NoCall]
    /\ UNCHANGED <<latch, snap, calls>>

\* throw: the stack is unwound, the lock guard's destructor releases latch_
Throw(t, status) ==
    /\ latch' = Free
    /\ pc' = [pc EXCEPT ![t] = "idle"]
    /\ ret' = Ret(cur[t].op, cur[t].arg, status, NoFrame)
    /\ cur' = [cur EXCEPT ![t] = NoCall]
    /\ snap' = NoSnap
    /\ UNCHANGED calls

\* Evict: the two scans for an evictable node
EvictScan(t) ==
    /\ pc[t] = "Evict"
    /\ IF EvictVictim = NoFrame
       THEN Return(t, "false", NoFrame)
       ELSE Goto(t, "Evict.Remove", EvictVictim)
    /\ UNCHANGED <<tvars, dvars>>

\* Evict: list_->Remove(current)
EvictRemove(t) ==
    /\ pc[t] = "Evict.Remove"
    /\ history_list' = Unlink(history_list, cur[t].idx)
    /\ cache_list' = Unlink(cache_list, cur[t].idx)
    /\ size_' = ListRemoveSize(size_, frame_map_[cur[t].idx].evictable_)
    /\ Goto(t, "Evict.erase", cur[t].idx)
    /\ UNCHANGED <<k_, replacer_size_, frame_map_, now, accessed, promoted, dvars>>

\* Evict: frame_map_.erase(current->frame_id_); return true
EvictErase(t) ==
    /\ pc[t] = "Evict.erase"
    /\ frame_map_' = Erase(frame_map_, cur[t].idx)
    /\ accessed' = Erase(accessed, cur[t].idx)
    /\ Return(t, "true", cur[t].idx)
    /\ UNCHANGED <<k_, replacer_size_, cache_list, history_list, size_, now, promoted, dvars>>

\* RecordAccess: frame_map_.find, then node->count_++ or the new node put in the map
AccessFind(t) ==
    /\ pc[t] = "RecordAccess"
    /\ LET f == cur[t].arg IN
       IF f \in DOMAIN frame_map_
       THEN /\ frame_map_' = [frame_map_ EXCEPT ![f].count_ = @ + 1]
            /\ Goto(t, "RecordAccess.Remove", NoFrame)
       ELSE /\ frame_map_' = [x \in DOMAIN frame_map_ \cup {f} |->
                                 IF x = f THEN NewNode ELSE frame_map_[x]]
            /\ Goto(t, "RecordAccess.Insert", NoFrame)
    /\ UNCHANGED <<k_, replacer_size_, cache_list, history_list, size_, now, accessed,
                   promoted, dvars>>

\* RecordAccess: list_->Remove(node)
AccessRemove(t) ==
    /\ pc[t] = "RecordAccess.Remove"
    /\ history_list' = Unlink(history_list, cur[t].arg)
    /\ cache_list' = Unlink(cache_list, cur[t].arg)
    /\ size_' = ListRemoveSize(size_, frame_map_[cur[t].arg].evictable_)
    /\ Goto(t, "RecordAccess.Insert", NoFrame)
    /\ UNCHANGED <<k_, replacer_size_, frame_map_, now, accessed, promoted, dvars>>

\* RecordAccess: InsertCacheList or InsertHistoryList by count_ >= k_; return
AccessInsert(t) ==
    /\ pc[t] = "RecordAccess.Insert"
    /\ LET f == cur[t].arg
           cached == InCacheSegment(frame_map_[f].count_, k_)
       IN /\ IF cached
             THEN cache_list' = InsertCacheList(cache_list, f) /\ UNCHANGED history_list
             ELSE history_list' = InsertHistoryList(history_list, f) /\ UNCHANGED cache_list
          /\ size_' = ListInsertSize(size_, frame_map_[f].evictable_)
          /\ now' = now + 1
          /\ accessed' = [x \in DOMAIN accessed \cup {f} |->
                             IF x # f THEN accessed[x]
                             ELSE IF f \in DOMAIN accessed THEN Append(accessed[f], now + 1)
                             ELSE <<now + 1>>]
          /\ promoted' = IF cached THEN promoted \cup {f} ELSE promoted
    /\ Return(t, "ok", NoFrame)
    /\ UNCHANGED <<k_, replacer_size_, frame_map_, dvars>>

\* SetEvictable: frame_map_.find and the throw, or the first if statement
FlagFind(t) ==
    /\ pc[t] = "SetEvictable"
    /\ LET f == cur[t].arg IN
       IF f \notin DOMAIN frame_map_
       THEN Throw(t, "FrameNotFound") /\ UNCHANGED tvars
       ELSE LET turnOn == ~frame_map_[f].evictable_ /\ cur[t].val = FlagOf(TRUE) IN
            /\ frame_map_' = [frame_map_ EXCEPT ![f].evictable_ = IF turnOn THEN TRUE ELSE @]
            /\ size_' = IF turnOn THEN IncrementSize(size_) ELSE size_
            /\ Goto(t, "SetEvictable.off", NoFrame)
            /\ UNCHANGED <<k_, replacer_size_, cache_list, history_list, now, accessed,
                           promoted>>
    /\ UNCHANGED dvars

\* SetEvictable: the second if statement; return
FlagOff(t) ==
    /\ pc[t] = "SetEvictable.off"
    /\ LET f == cur[t].arg
           turnOff == frame_map_[f].evictable_ /\ cur[t].val = FlagOf(FALSE)
       IN /\ frame_map_' = [frame_map_ EXCEPT ![f].evictable_ = IF turnOff THEN FALSE ELSE @]
          /\ size_' = IF turnOff THEN DecrementSize(size_) ELSE size_
    /\ Return(t, "ok", cur[t].val)
    /\ UNCHANGED <<k_, replacer_size_, cache_list, history_list, now, accessed, promoted,
                   dvars>>

\* Remove: frame_map_.find and the return, the throw, or list_->Remove(node)
RemoveFind(t) ==
    /\ pc[t] = "Remove"
    /\ LET f == cur[t].arg IN
       IF f \notin DOMAIN frame_map_
       THEN Return(t, "ok", NoFrame) /\ UNCHANGED tvars
       ELSE IF ~frame_map_[f].evictable_
       THEN Throw(t, "NotEvictable") /\ UNCHANGED tvars
       ELSE /\ history_list' = Unlink(history_list, f)
            /\ cache_list' = Unlink(cache_list, f)
            /\ size_' = ListRemoveSize(size_, frame_map_[f].evictable_)
            /\ Goto(t, "Remove.erase", NoFrame)
            /\ UNCHANGED <<k_, replacer_size_, frame_map_, now, accessed, promoted>>
    /\ UNCHANGED dvars

\* Remove: frame_map_.erase(it); return
RemoveErase(t) ==
    /\ pc[t] = "Remove.erase"
    /\ frame_map_' = Erase(frame_map_, cur[t].arg)
    /\ accessed' = Erase(accessed, cur[t].arg)
    /\ Return(t, "removed", NoFrame)
    /\ UNCHANGED <<k_, replacer_size_, cache_list, history_list, size_, now, promoted, dvars>>

\* Size: return list_->Size()
SizeRead(t) ==
    /\ pc[t] = "Size"
    /\ Return(t, "ok", Size)
    /\ UNCHANGED <<tvars, dvars>>

\* the statements of the replacer's operations
TrackerStep(t) ==
    \/ EvictScan(t)
    \/ EvictRemove(t)
    \/ EvictErase(t)
    \/ AccessFind(t)
    \/ AccessRemove(t)
    \/ AccessInsert(t)
    \/ FlagFind(t)
    \/ FlagOff(t)
    \/ RemoveFind(t)
    \/ RemoveErase(t)
    \/ SizeRead(t)

\* Find: return bucket->Find(key, value)
FindRead(t) ==
    /\ pc[t] = "Find"
    /\ LET r == FindResult(cur[t].arg) IN
       Return(t, IF r.found THEN "true" ELSE "false", r.value)
    /\ UNCHANGED <<tvars, dvars>>

\* Remove: return bucket->Remove(key)
TableRemoveErase(t) ==
    /\ pc[t] = "Table.Remove"
    /\ LET b == dir_[IndexOf(global_depth_, cur[t].arg) + 1]
           r == Bucket_Remove(buckets[b], cur[t].arg)
       IN /\ buckets' = [buckets EXCEPT ![b] = r.bucket]
          /\ kv' = Erase(kv, cur[t].arg)
          /\ Return(t, IF r.ok THEN "true" ELSE "false", NoValue)
    /\ UNCHANGED <<tvars, global_depth_, bucket_size_, num_buckets_, dir_>>

\* GetGlobalDepth: return global_depth_
DepthRead(t) ==
    /\ pc[t] = "GetGlobalDepth"
    /\ Return(t, "ok", GetGlobalDepth)
    /\ UNCHANGED <<tvars, dvars>>

\* GetNumBuckets: return num_buckets_
CountRead(t) ==
    /\ pc[t] = "GetNumBuckets"
    /\ Return(t, "ok", GetNumBuckets)
    /\ UNCHANGED <<tvars, dvars>>

\* Insert: size_t index = IndexOf(key)
InsertIndex(t) ==
    /\ pc[t] = "Insert"
    /\ Goto(t, "Insert.try", IndexOf(global_depth_, cur[t].arg))
    /\ UNCHANGED <<tvars, dvars>>

\* Insert: the test of the while loop, dir_[index]->Insert(key, value); return when
\* it stored the entry
InsertTry(t) ==
    /\ pc[t] = "Insert.try"
    /\ LET b == dir_[cur[t].idx + 1]
           r == Bucket_Insert(buckets[b], bucket_size_, cur[t].arg, cur[t].val)
       IN IF r.ok
          THEN /\ buckets' = [buckets EXCEPT ![b] = r.bucket]
               /\ kv' = Put(kv, cur[t].arg, cur[t].val)
               /\ Return(t, "void", cur[t].val)
               /\ UNCHANGED <<global_depth_, bucket_size_, num_buckets_, dir_>>
          ELSE Goto(t, "Insert.grow", cur[t].idx) /\ UNCHANGED dvars
    /\ UNCHANGED tvars

\* Insert: the if statement of the loop body, ExpandTable() and index = IndexOf(key)
InsertGrow(t) ==
    /\ pc[t] = "Insert.grow"
    /\ IF buckets[dir_[cur[t].idx + 1]].depth_ = global_depth_
       THEN /\ global_depth_' = ExpandTable(Table).gd
            /\ dir_' = ExpandTable(Table).dir
            /\ Goto(t, "SplitBucket", IndexOf(global_depth_ + 1, cur[t].arg))
            /\ UNCHANGED <<bucket_size_, num_buckets_, buckets, kv>>
       ELSE Goto(t, "SplitBucket", cur[t].idx) /\ UNCHANGED dvars
    /\ UNCHANGED tvars

\* SplitBucket: the new bucket, IncrementDepth() and the loop over the items
SplitMove(t) ==
    /\ pc[t] = "SplitBucket"
    /\ LET b == dir_[cur[t].idx + 1]
           depth == buckets[b].depth_ + 1
           parts == SplitItems(buckets[b].list_, global_depth_, depth, bucket_size_,
                               [depth_ |-> depth, list_ |-> << >>],
                               [depth_ |-> depth, list_ |-> << >>])
       IN buckets' = Append([buckets EXCEPT ![b] = parts.old], parts.new)
    /\ Goto(t, "SplitBucket.count", cur[t].idx)
    /\ UNCHANGED <<tvars, global_depth_, bucket_size_, num_buckets_, dir_, kv>>

\* SplitBucket: num_buckets_++
SplitCount(t) ==
    /\ pc[t] = "SplitBucket.count"
    /\ num_buckets_' = num_buckets_ + 1
    /\ Goto(t, "SplitBucket.repoint", cur[t].idx)
    /\ UNCHANGED <<tvars, global_depth_, bucket_size_, dir_, buckets, kv>>

\* SplitBucket: the loop over dir_; then the test of the while loop again
SplitRepoint(t) ==
    /\ pc[t] = "SplitBucket.repoint"
    /\ LET b == dir_[cur[t].idx + 1] IN
       dir_' = Repoint(dir_, b, Len(buckets), buckets[b].depth_)
    /\ Goto(t, "Insert.try", cur[t].idx)
    /\ UNCHANGED <<tvars, global_depth_, bucket_size_, num_buckets_, buckets, kv>>

\* the statements of the hash table's operations
DirectoryStep(t) ==
    \/ FindRead(t)
    \/ TableRemoveErase(t)
    \/ DepthRead(t)
    \/ CountRead(t)
    \/ InsertIndex(t)
    \/ InsertTry(t)
    \/ InsertGrow(t)
    \/ SplitMove(t)
    \/ SplitCount(t)
    \/ SplitRepoint(t)

\* threads calling the operations of one object, each operation run statement by
\* statement
ConcurrentNext ==
    \E t \in Threads :
        \/ k_ > 0 /\ TrackerCall(t)
        \/ bucket_size_ > 0 /\ DirectoryCall(t)
        \/ Acquire(t)
        \/ TrackerStep(t)
        \/ DirectoryStep(t)

SpecConcurrent == Init /\ [][ConcurrentNext]_vars

\* ------------------------------------------------------------- whole operations
\* what an operation run alone, from its first statement to its return, makes of
\* state s: the state after it, and the status and value it returns
Done(st, status, val) == [st |-> st, status |-> status, val |-> val]

\* the first evictable node of list s under the map fm, or NoFrame
RECURSIVE FirstEvictableIn(_, _)
FirstEvictableIn(fm, s) ==
    IF s = << >> THEN NoFrame
    ELSE IF fm[Head(s)].evictable_ THEN Head(s)
    ELSE FirstEvictableIn(fm, Tail(s))

\* LRUKReplacer::Evict
WholeEvict(s) ==
    LET h == FirstEvictableIn(s.fm, s.hl)
        v == IF h # NoFrame THEN h ELSE FirstEvictableIn(s.fm, s.cl)
    IN IF v = NoFrame THEN Done(s, "false", NoFrame)
       ELSE Done([fm |-> Erase(s.fm, v), cl |-> Unlink(s.cl, v), hl |-> Unlink(s.hl, v),
                  sz |-> ListRemoveSize(s.sz, s.fm[v].evictable_)], "true", v)

\* LRUKReplacer::RecordAccess
WholeRecordAccess(s, k, f) ==
    LET known == f \in DOMAIN s.fm
        node == IF known THEN [s.fm[f] EXCEPT !.count_ = @ + 1] ELSE NewNode
        sz == IF known THEN ListRemoveSize(s.sz, node.evictable_) ELSE s.sz
        cached == InCacheSegment(node.count_, k)
    IN Done([fm |-> [x \in DOMAIN s.fm \cup {f} |-> IF x = f THEN node ELSE s.fm[x]],
             cl |-> IF cached THEN InsertCacheList(Unlink(s.cl, f), f) ELSE Unlink(s.cl, f),
             hl |-> IF cached THEN Unlink(s.hl, f) ELSE InsertHistoryList(Unlink(s.hl, f), f),
             sz |-> ListInsertSize(sz, node.evictable_)], "ok", NoFrame)

\* LRUKReplacer::SetEvictable
WholeSetEvictable(s, f, flag) ==
    IF f \notin DOMAIN s.fm THEN Done(s, "FrameNotFound", NoFrame)
    ELSE LET turnOn == ~s.fm[f].evictable_ /\ flag = FlagOf(TRUE)
             ev == IF turnOn THEN TRUE ELSE s.fm[f].evictable_
             sz == IF turnOn THEN IncrementSize(s.sz) ELSE s.sz
             turnOff == ev /\ flag = FlagOf(FALSE)
         IN Done([s EXCEPT !.fm[f].evictable_ = IF turnOff THEN FALSE ELSE ev,
                           !.sz = IF turnOff THEN DecrementSize(sz) ELSE sz], "ok", flag)

\* LRUKReplacer::Remove
WholeRemove(s, f) ==
    IF f \notin DOMAIN s.fm THEN Done(s, "ok", NoFrame)
    ELSE IF ~s.fm[f].evictable_ THEN Done(s, "NotEvictable", NoFrame)
    ELSE Done([fm |-> Erase(s.fm, f), cl |-> Unlink(s.cl, f), hl |-> Unlink(s.hl, f),
               sz |-> ListRemoveSize(s.sz, s.fm[f].evictable_)], "removed", NoFrame)

\* the call c of a replacer with constant k
WholeTracker(s, k, c) ==
    CASE c.op = "Evict" -> WholeEvict(s)
      [] c.op = "RecordAccess" -> WholeRecordAccess(s, k, c.arg)
      [] c.op = "SetEvictable" -> WholeSetEvictable(s, c.arg, c.val)
      [] c.op = "Remove" -> WholeRemove(s, c.arg)
      [] c.op = "Size" -> Done(s, "ok", s.sz)

\* the call c of a hash table with buckets of the given size
WholeDirectory(s, size, c) ==
    LET b == s.dir[IndexOf(s.gd, c.arg) + 1] IN
    CASE c.op = "Find" ->
            Done(s, IF Bucket_Find(s.bk[b], c.arg).found THEN "true" ELSE "false",
                 Bucket_Find(s.bk[b], c.arg).value)
      [] c.op = "Insert" ->
            Done(InsertLoop(s, size, c.arg, c.val, IndexOf(s.gd, c.arg)), "void", c.val)
      [] c.op = "Table.Remove" ->
            Done([s EXCEPT !.bk[b] = Bucket_Remove(s.bk[b], c.arg).bucket],
                 IF Bucket_Remove(s.bk[b], c.arg).ok THEN "true" ELSE "false", NoValue)
      [] c.op = "GetGlobalDepth" -> Done(s, "ok", s.gd)
      [] c.op = "GetNumBuckets" -> Done(s, "ok", s.nb)

\* ------------------------------------------------------------- properties
Tracked == DOMAIN frame_map_

\* the tracked frames that Evict may pick, by segment
EvictableHistory == {f \in Tracked : frame_map_[f].evictable_ /\ frame_map_[f].count_ < k_}

EvictableCache == {f \in Tracked : frame_map_[f].evictable_ /\ frame_map_[f].count_ >= k_}

\* the time of the most recent, the k-th most recent and the first RecordAccess of f
LastAccess(f) == accessed[f][Len(accessed[f])]

KthAccess(f) == accessed[f][Len(accessed[f]) - k_ + 1]

FirstAccess(f) == accessed[f][1]

\* the frame of S whose most recent RecordAccess is the oldest
LeastRecent(S) == CHOOSE f \in S : \A g \in S : LastAccess(f) <= LastAccess(g)

ListSet(s) == {s[i] : i \in 1 .. Len(s)}

\* the slots of the directory
Slots == 0 .. (Pow2(global_depth_) - 1)

\* C1: Find answers as the plain map of the Insert and Remove calls so far: a key
\* inserted and not removed since is found with its last value, any other key is
\* not found, whatever splits and doublings happened.
C1_FindIsMap ==
    \A key \in Keys :
        IF key \in DOMAIN kv
        THEN FindResult(key) = [found |-> TRUE, value |-> kv[key]]
        ELSE ~FindResult(key).found

\* C1 witness: a Find misses a removed key in a directory doubled twice and split
\* into four buckets, with two keys still stored.
C1_Witness ==
    /\ global_depth_ = 2
    /\ num_buckets_ = 4
    /\ Cardinality(DOMAIN kv) = 2
    /\ ret.op = "Find" /\ ret.status = "false"
    /\ \E key \in DOMAIN kv : FindResult(key).value = "b"

\* C9: every slot's local depth is at most the global depth, and slot i references
\* the same bucket instance as slot i mod 2^LocalDepth(i).
C9_DepthInvariant ==
    /\ Len(dir_) = Pow2(global_depth_)
    /\ \A i \in Slots :
        /\ GetLocalDepth(i) <= GetGlobalDepth
        /\ dir_[i + 1] = dir_[(i % Pow2(GetLocalDepth(i))) + 1]

\* C9 witness: after two doublings one bucket of local depth 1 is shared by two slots
\* next to a bucket of local depth 2.
C9_Witness ==
    /\ global_depth_ = 2
    /\ \E i \in Slots : GetLocalDepth(i) = 1 /\ dir_[i + 1] = dir_[((i + 2) % 4) + 1]
    /\ \E i \in Slots : GetLocalDepth(i) = 2

SizeConsistent == Size = Cardinality({f \in Tracked : frame_map_[f].evictable_})

SizeSteps ==
    /\ (ret'.op = "Evict" /\ ret'.status = "true") => size_' = size_ - 1
    /\ (ret'.op = "Remove" /\ ret'.status = "removed") => size_' = size_ - 1
    /\ (ret'.op = "SetEvictable" /\ ret'.status = "ok") =>
          LET f == ret'.arg IN
          IF frame_map_'[f].evictable_ = frame_map_[f].evictable_ THEN size_' = size_
          ELSE IF frame_map_'[f].evictable_ THEN size_' = size_ + 1
          ELSE size_' = size_ - 1

C3_SizeConsistency == [](SizeConsistent) /\ [][SizeSteps]_vars

\* C3 witness: a successful Evict left one evictable and one non-evictable frame.
C3_Witness ==
    /\ ret.op = "Evict" /\ ret.status = "true"
    /\ size_ = 1
    /\ Cardinality(Tracked) = 2

\* C4: with no evictable frame of fewer than k accesses, Evict returns the evictable
\* frame whose k-th most recent RecordAccess is the oldest.
C4_KDistance ==
    [][(ret'.op = "Evict" /\ EvictableHistory = {} /\ EvictableCache # {}) =>
        \A g \in EvictableCache : KthAccess(ret'.val) <= KthAccess(g)]_vars

\* C5: among evictable frames of fewer than k accesses, Evict returns the one whose
\* first RecordAccess is the oldest.
C5_EarliestOverall ==
    [][(ret'.op = "Evict" /\ EvictableHistory # {}) =>
        \A g \in EvictableHistory : FirstAccess(ret'.val) <= FirstAccess(g)]_vars

\* C6: RecordAccess of a frame id larger than replacer_size_ fails with InvalidFrameId
\* and creates no record, changes no list and leaves Size() as it was.
C6_InvalidFrameId ==
    [][(ret'.op = "RecordAccess" /\ ret'.arg > replacer_size_) =>
        /\ ret'.status = "InvalidFrameId"
        /\ UNCHANGED <<frame_map_, cache_list, history_list, size_>>]_vars

\* C7: Remove deletes a record only when the frame is tracked and evictable; on a
\* tracked non-evictable frame it fails with NotEvictable and on an unknown frame it
\* returns without error, the state unchanged in both cases.
C7_Remove ==
    [][ret'.op = "Remove" =>
        LET f == ret'.arg IN
        IF f \notin Tracked THEN ret'.status = "ok" /\ UNCHANGED tvars
        ELSE IF ~frame_map_[f].evictable_
        THEN ret'.status = "NotEvictable" /\ UNCHANGED tvars
        ELSE /\ ret'.status = "removed"
             /\ frame_map_' = Erase(frame_map_, f)]_vars

\* C7 witness: a Remove of a tracked, non-evictable frame has failed.
C7_Witness ==
    /\ ret.op = "Remove" /\ ret.status = "NotEvictable"
    /\ ret.arg \in Tracked
    /\ ~frame_map_[ret.arg].evictable_
    /\ size_ >= 1

\* C8: SetEvictable of an untracked frame fails with FrameNotFound and changes
\* nothing; on a tracked frame whose flag already has the requested value it changes
\* neither Size() nor a list nor a record.
C8_SetEvictable ==
    [][ret'.op = "SetEvictable" =>
        LET f == ret'.arg IN
        IF f \notin Tracked THEN ret'.status = "FrameNotFound" /\ UNCHANGED tvars
        ELSE /\ ret'.status = "ok"
             /\ FlagOf(frame_map_[f].evictable_) = ret'.val => UNCHANGED tvars]_vars

\* C8 witness: a SetEvictable of an untracked frame has failed while another frame
\* is tracked and evictable.
C8_Witness ==
    /\ ret.op = "SetEvictable" /\ ret.status = "FrameNotFound"
    /\ ret.arg \notin Tracked
    /\ size_ >= 1

\* C10: each tracked frame has one node, in exactly one of the two lists: the history
\* list iff its count is below k, the cache list iff its count is k or more.
C10_SegmentInvariant ==
    /\ ListSet(cache_list) \cup ListSet(history_list) = Tracked
    /\ Len(cache_list) + Len(history_list) = Cardinality(Tracked)
    /\ \A f \in Tracked :
        /\ f \in ListSet(history_list) <=> frame_map_[f].count_ < k_
        /\ f \in ListSet(cache_list) <=> frame_map_[f].count_ >= k_

\* C10 witness: with k = 1 the first access of a frame put it in the cache list.
C10_Witness ==
    /\ k_ = 1
    /\ ret.op = "RecordAccess"
    /\ frame_map_[ret.arg].count_ = 1
    /\ ret.arg \in ListSet(cache_list)

\* C11 as stated: a frame id whose count has once reached k is never again in the
\* history list, whatever operations follow.
C11_NeverBackInHistory == \A f \in promoted : f \notin ListSet(history_list)

\* C11 as amended: a frame in the cache list stays in the cache list, with a count
\* of k or more, until an Evict or a Remove erases its record; only a record made
\* anew by a later RecordAccess can be in the history list.
C11_PromotionMonotone ==
    [][\A f \in ListSet(cache_list) :
          \/ /\ f \in ListSet(cache_list')
             /\ f \notin ListSet(history_list')
             /\ frame_map_'[f].count_ >= frame_map_[f].count_
          \/ /\ f \notin Tracked'
             /\ \/ ret'.op = "Evict" /\ ret'.val = f
                \/ ret'.op = "Remove" /\ ret'.arg = f]_vars

\* C11 witness: a frame of the cache list has been accessed again, past k accesses.
C11_Witness ==
    /\ ret.op = "RecordAccess"
    /\ ret.arg \in ListSet(cache_list)
    /\ frame_map_[ret.arg].count_ > k_
    /\ history_list # << >>

\* the number W of low bits within which the hashes of the keys 0..MaxKey differ
RECURSIVE BitsFor(_)
BitsFor(n) == IF n = 0 THEN 0 ELSE 1 + BitsFor(n \div 2)

W == BitsFor(MaxKey)

\* C13: every Insert ends with the key stored under the given value, after at most W
\* splits, and the global depth never exceeds W, the keys' hashes being pairwise
\* distinct within W bits and the bucket size at least 1.
C13_InsertStores ==
    ret'.op = "Insert" =>
        /\ \A key \in Keys : \A value \in Values :
              (ret'.arg = key /\ ret'.val = value) =>
                  FindResult(key)' = [found |-> TRUE, value |-> value]
        /\ num_buckets_' - num_buckets_ <= W
        /\ Len(buckets') - Len(buckets) <= W

C13_InsertTerminates == [](global_depth_ <= W) /\ [][C13_InsertStores]_vars

\* C13 witness: with buckets of one entry, key 0 stored, the Insert of key 2 found
\* the bucket still full after the first split and split a second time.
C13_Witness ==
    /\ ret.op = "Insert" /\ ret.arg = 2
    /\ bucket_size_ = 1
    /\ DOMAIN kv = {0, 2}
    /\ global_depth_ = 2
    /\ Len(buckets) = 3
    /\ buckets[2].list_ = << >>

\* C14: Remove of a key that is not stored returns false and Remove of a frame that
\* is not tracked returns without error; both leave the whole state as it was, so a
\* repeated Remove does what one Remove does.
C14_RemoveAbsent ==
    /\ \A key \in Keys :
          (ret'.op = "Table.Remove" /\ ret'.arg = key /\ ~FindResult(key).found) =>
              ret'.status = "false" /\ UNCHANGED <<tvars, dvars>>
    /\ \A f \in FrameIds :
          (ret'.op = "Remove" /\ ret'.arg = f /\ f \notin Tracked) =>
              ret'.status = "ok" /\ UNCHANGED <<tvars, dvars>>
    /\ \A key \in Keys :
          (ret'.op = "Table.Remove" /\ ret'.arg = key) => ~FindResult(key).found'
    /\ \A f \in FrameIds :
          (ret'.op = "Remove" /\ ret'.arg = f /\ ret'.status # "NotEvictable") =>
              f \notin Tracked'

C14_IdempotentRemove == [][C14_RemoveAbsent]_vars

\* C14 witness: a second Remove of a key returns false in a directory of depth 2
\* whose bucket for that key the first Remove had emptied.
C14_Witness ==
    /\ ret.op = "Table.Remove" /\ ret.status = "false"
    /\ global_depth_ = 2
    /\ kv # << >>
    /\ buckets[dir_[IndexOf(global_depth_, ret.arg) + 1]].list_ = << >>
    /\ buckets[dir_[IndexOf(global_depth_, ret.arg) + 1]].depth_ = 2

\* the slots of the directory that reference bucket instance b
SlotsOf(b) == {i \in DOMAIN dir_ : dir_[i] = b}

\* the bucket instances the directory references
Referenced == {dir_[i] : i \in DOMAIN dir_}

\* C15: GetNumBuckets() is the number of distinct bucket instances the slots
\* reference, and a bucket of local depth d is referenced by exactly
\* 2^(global_depth_ - d) slots: it is shared exactly when d < global_depth_.
C15_BucketCount ==
    /\ GetNumBuckets = Cardinality(Referenced)
    /\ Referenced = 1 .. Len(buckets)
    /\ \A b \in Referenced :
          /\ buckets[b].depth_ <= global_depth_
          /\ Cardinality(SlotsOf(b)) = Pow2(global_depth_ - buckets[b].depth_)
          /\ (Cardinality(SlotsOf(b)) > 1) <=> (buckets[b].depth_ < global_depth_)

\* C15 witness: four slots over three buckets, one of them shared by two slots.
C15_Witness ==
    /\ Len(dir_) = 4
    /\ GetNumBuckets = 3
    /\ \E b \in Referenced : Cardinality(SlotsOf(b)) = 2 /\ buckets[b].depth_ = 1

\* the local depth of every bucket instance
Depths(bk) == [b \in DOMAIN bk |-> bk[b].depth_]

\* C16: GetGlobalDepth(), GetNumBuckets() and the local depth of every bucket never
\* decrease, no slot and no bucket is ever given up, and Remove (deleting or not)
\* leaves the global depth, the local depths, the bucket count and the slots as
\* they were.
C16_Step ==
    /\ global_depth_' >= global_depth_
    /\ num_buckets_' >= num_buckets_
    /\ Len(dir_') >= Len(dir_)
    /\ Len(buckets') >= Len(buckets)
    /\ \A b \in DOMAIN buckets : buckets'[b].depth_ >= buckets[b].depth_
    /\ \A i \in DOMAIN dir_ : GetLocalDepth(i - 1)' >= GetLocalDepth(i - 1)
    /\ ret'.op = "Table.Remove" =>
          /\ UNCHANGED <<global_depth_, num_buckets_, dir_>>
          /\ Depths(buckets') = Depths(buckets)

C16_NeverShrinks == [][C16_Step]_vars

\* C16 witness: a Remove has deleted the last entry of a bucket of a directory that
\* has grown; the emptied bucket is still there.
C16_Witness ==
    /\ ret.op = "Table.Remove" /\ ret.status = "true"
    /\ global_depth_ = 2 /\ num_buckets_ = 3
    /\ buckets[dir_[IndexOf(global_depth_, ret.arg) + 1]].list_ = << >>
    /\ buckets[dir_[IndexOf(global_depth_, ret.arg) + 1]].depth_ = 2

\* C17: a successful Evict of f or Remove(f) leaves no record of f: f is not tracked
\* and in neither list, SetEvictable(f, _) then fails with FrameNotFound and
\* Remove(f) does nothing; RecordAccess(f) on an untracked f makes a record with
\* count_ 1 that is not evictable, at the back of the history list (of the cache list
\* when k_ = 1), whatever accesses f had before.
C17_Step ==
    \A f \in FrameIds :
        /\ (\/ ret'.op = "Evict" /\ ret'.status = "true" /\ ret'.val = f
            \/ ret'.op = "Remove" /\ ret'.status = "removed" /\ ret'.arg = f) =>
               /\ f \notin Tracked'
               /\ f \notin ListSet(cache_list') \cup ListSet(history_list')
        /\ (ret'.op = "SetEvictable" /\ ret'.arg = f /\ f \notin Tracked) =>
               ret'.status = "FrameNotFound" /\ UNCHANGED tvars
        /\ (ret'.op = "Remove" /\ ret'.arg = f /\ f \notin Tracked) =>
               ret'.status = "ok" /\ UNCHANGED tvars
        /\ (ret'.op = "RecordAccess" /\ ret'.arg = f /\ f \notin Tracked) =>
               /\ f \in Tracked'
               /\ frame_map_'[f].count_ = 1
               /\ ~frame_map_'[f].evictable_
               /\ size_' = size_
               /\ IF k_ = 1
                  THEN cache_list' = cache_list \o <<f>> /\ history_list' = history_list
                  ELSE history_list' = history_list \o <<f>> /\ cache_list' = cache_list

C17_ForgetsFrame == [][C17_Step]_vars

\* C17 witness: a frame that had reached k_ >= 2 accesses was taken out and has been
\* accessed again: it is at the back of the history list with count_ 1.
C17_Witness ==
    /\ ret.op = "RecordAccess" /\ ret.arg \in promoted /\ k_ >= 2
    /\ ret.arg \in Tracked
    /\ frame_map_[ret.arg] = NewNode
    /\ history_list # << >>
    /\ history_list[Len(history_list)] = ret.arg

\* C18: Insert(key, value) of a key that is stored puts value in that key's entry
\* and changes nothing else, full bucket or not: the global depth, the local depths,
\* the bucket count, the slots and every other entry stay as they were.
C18_Step ==
    \A key \in Keys : \A value \in Values :
        (ret'.op = "Insert" /\ ret'.arg = key /\ ret'.val = value
            /\ FindResult(key).found) =>
           /\ UNCHANGED <<global_depth_, bucket_size_, num_buckets_, dir_>>
           /\ DOMAIN buckets' = DOMAIN buckets
           /\ \A b \in DOMAIN buckets :
                 /\ buckets'[b].depth_ = buckets[b].depth_
                 /\ Len(buckets'[b].list_) = Len(buckets[b].list_)
                 /\ \A i \in 1 .. Len(buckets[b].list_) :
                       buckets'[b].list_[i] =
                           IF buckets[b].list_[i][1] = key THEN <<key, value>>
                           ELSE buckets[b].list_[i]
           /\ FindResult(key)' = [found |-> TRUE, value |-> value]

C18_InsertOverwrites == [][C18_Step]_vars

\* C18 witness: the last Insert was for the key in front of a full bucket of two
\* entries (the entry behind it was appended later, so the key was there already).
C18_Witness ==
    /\ ret.op = "Insert" /\ bucket_size_ = 2 /\ global_depth_ >= 1
    /\ LET l == buckets[dir_[IndexOf(global_depth_, ret.arg) + 1]].list_
       IN Len(l) = 2 /\ l[1] = <<ret.arg, ret.val>>

\* the entries of a list as a set, and the keys of bucket instance b
Entries(l) == {l[i] : i \in 1 .. Len(l)}

KeysOf(b) == {buckets[b].list_[i][1] : i \in 1 .. Len(buckets[b].list_)}

\* the table after SplitBucket on bucket instance b, the directory being doubled
\* first when b is at the global depth, as Insert does
SplitOf(b) ==
    SplitBucket(IF buckets[b].depth_ = global_depth_ THEN ExpandTable(Table) ELSE Table,
                bucket_size_, b)

\* C19: no bucket holds more than bucket_size_ entries; a stored key is in exactly
\* one bucket, once; the keys of the bucket of slot i agree with i on the low
\* GetLocalDepth(i) bits; SplitBucket leaves in the bucket and its new sibling
\* exactly the entries the bucket held, each once.
C19_BucketContents ==
    /\ \A b \in DOMAIN buckets :
          /\ Len(buckets[b].list_) <= bucket_size_
          /\ Cardinality(KeysOf(b)) = Len(buckets[b].list_)
          /\ \A c \in DOMAIN buckets : b # c => KeysOf(b) \cap KeysOf(c) = {}
    /\ DOMAIN kv = UNION {KeysOf(b) : b \in DOMAIN buckets}
    /\ \A i \in Slots : \A key \in KeysOf(dir_[i + 1]) :
          Hash(key) % Pow2(GetLocalDepth(i)) = i % Pow2(GetLocalDepth(i))
    /\ \A b \in DOMAIN buckets :
          LET t == SplitOf(b)
              old == t.bk[b].list_
              new == t.bk[Len(t.bk)].list_
          IN /\ Len(t.bk) = Len(buckets) + 1
             /\ Entries(old) \cup Entries(new) = Entries(buckets[b].list_)
             /\ Entries(old) \cap Entries(new) = {}
             /\ Len(old) + Len(new) = Len(buckets[b].list_)

\* C19 witness: four keys stored after a split, a full bucket of two entries whose
\* split puts one entry on each side.
C19_Witness ==
    /\ Cardinality(DOMAIN kv) = 4 /\ num_buckets_ = 2 /\ bucket_size_ = 2
    /\ \E b \in DOMAIN buckets :
          /\ Len(buckets[b].list_) = 2
          /\ Len(SplitOf(b).bk[b].list_) = 1

\* C20: RecordAccess(f) leaves Size() as it was; a tracked f keeps its evictable_
\* flag and gets count_ + 1, a new f gets a record that is not evictable; the record
\* of every other frame and the order of the other frames in each list are unchanged.
C20_Step ==
    \A f \in FrameIds :
        (ret'.op = "RecordAccess" /\ ret'.arg = f) =>
           /\ Size' = Size
           /\ Tracked' = Tracked \cup {f}
           /\ IF f \in Tracked
              THEN /\ frame_map_'[f].evictable_ = frame_map_[f].evictable_
                   /\ frame_map_'[f].count_ = frame_map_[f].count_ + 1
              ELSE /\ ~frame_map_'[f].evictable_
                   /\ frame_map_'[f].count_ = 1
           /\ \A g \in Tracked \ {f} : frame_map_'[g] = frame_map_[g]
           /\ Unlink(cache_list', f) = Unlink(cache_list, f)
           /\ Unlink(history_list', f) = Unlink(history_list, f)
           /\ Cardinality({g \in Tracked' : frame_map_'[g].evictable_})
                 = Cardinality({g \in Tracked : frame_map_[g].evictable_})

C20_AccessKeepsEvictability == [][C20_Step]_vars

\* C20 witness: RecordAccess on an evictable frame that was tracked before, another
\* frame being tracked and evictable as well.
C20_Witness ==
    /\ ret.op = "RecordAccess" /\ ret.arg \in Tracked
    /\ frame_map_[ret.arg].evictable_ /\ frame_map_[ret.arg].count_ >= 2
    /\ Size = 2
    /\ Cardinality(Tracked) >= 2

\* the replacer in the middle of an operation: a node of the map in neither list (not
\* yet inserted, or unlinked and not inserted again), a node of a list not in the
\* map, a node in the list its count_ does not belong to, or size_ off the number of
\* evictable nodes
TornTracker ==
    \/ ListSet(cache_list) \cup ListSet(history_list) # Tracked
    \/ \E f \in Tracked :
          (f \in ListSet(cache_list)) # InCacheSegment(frame_map_[f].count_, k_)
    \/ size_ # Cardinality({f \in Tracked : frame_map_[f].evictable_})

\* the hash table in the middle of an Insert: the directory doubled and no bucket
\* split yet, a bucket no slot leads to, an entry Find does not reach, a bucket with
\* more or fewer slots than its depth gives it, or num_buckets_ off the number of
\* buckets
TornDirectory ==
    \/ \A b \in Referenced : buckets[b].depth_ < global_depth_
    \/ Referenced # 1 .. Len(buckets)
    \/ \E key \in DOMAIN kv : FindResult(key) # [found |-> TRUE, value |-> kv[key]]
    \/ \E b \in Referenced :
          Cardinality(SlotsOf(b)) * Pow2(buckets[b].depth_) # Pow2(global_depth_)
    \/ num_buckets_ # Cardinality(Referenced)

Torn == IF k_ > 0 THEN TornTracker ELSE TornDirectory

\* the state of the object that is in use
Object == IF k_ > 0 THEN TState ELSE Table

\* the call c run alone on state s
WholeCall(s, c) ==
    IF k_ > 0 THEN WholeTracker(s, k_, c) ELSE WholeDirectory(s, bucket_size_, c)

C12_Exclusion ==
    /\ \A t \in Threads : InBody(t) => latch = t
    /\ \A t \in Threads : latch = t => InBody(t)
    /\ latch \in Threads \cup {Free}
    /\ latch = Free => ~Torn
    /\ \A t \in Threads : latch = t => ENABLED (TrackerStep(t) \/ DirectoryStep(t))

C12_Step ==
    /\ \A t \in Threads :
          (InBody(t) /\ pc'[t] = "idle") =>
             /\ latch' = Free
             /\ Object' = WholeCall(snap, cur[t]).st
             /\ ret'.op = cur[t].op /\ ret'.arg = cur[t].arg
             /\ ret'.status = WholeCall(snap, cur[t]).status
             /\ ret'.val = WholeCall(snap, cur[t]).val
             /\ ret'.status \in {"FrameNotFound", "NotEvictable"} => Object' = snap
    /\ Object' # Object =>
          /\ latch \in Threads
          /\ InBody(latch)
          /\ \A u \in Threads \ {latch} : pc'[u] = pc[u] /\ cur'[u] = cur[u]
    /\ \A t \in Threads :
          (pc[t] = "lock" /\ pc'[t] # "lock") => latch = Free /\ latch' = t

\* C12: threads run the operations of one replacer or one hash table statement by
\* statement.  Only the holder of latch_ is inside an operation and only it changes
\* the object; an operation starts on a state no operation is in the middle of;
\* when it returns, the object and the returned value are what the whole operation
\* run alone on the state at its start gives, so the run equals the operations one
\* after the other in the order they got latch_; a return and a throw (SetEvictable
\* of an unknown frame, Remove of a frame that is not evictable) both leave latch_
\* free and the holder of latch_ always has a next statement, so a thread blocked
\* on latch_ goes on.
C12_Serializable == []C12_Exclusion /\ [][C12_Step]_vars

\* C12 witness: a thread is inside RecordAccess with its node unlinked and not yet
\* inserted again; the other thread has called Evict and is blocked on latch_.
C12_Witness ==
    \E t \in Threads : \E u \in Threads :
        /\ pc[t] = "RecordAccess.Insert" /\ latch = t
        /\ frame_map_[cur[t].arg].count_ >= 2
        /\ cur[t].arg \notin ListSet(cache_list) \cup ListSet(history_list)
        /\ pc[u] = "lock" /\ cur[u].op = "Evict"
        /\ TornTracker

====
